---- MODULE Spec2Model ----
(***************************************************************************)
(* A model of src/main.rs of bevy_sponza_scene: the recursive hierarchy    *)
(* walk (all_children), the scene sanitizer (proc_scene) with its deferred *)
(* command queue, and the keyboard-driven save/load systems (input_scene,  *)
(* save_scene, load_scene) with their event queues and detached I/O tasks. *)
(*                                                                         *)
(* One frame of the application is: the event buffers are rotated, the     *)
(* four systems registered in main (lines 61-66) run once each, and the    *)
(* commands they queued are applied.  main registers the systems without any ordering constraint,   *)
(* so the order in which they run inside a frame is a nondeterministic     *)
(* choice of the scheduler; each system runs to completion (atomically).  *)
(***************************************************************************)
EXTENDS Integers, Sequences, FiniteSets, TLC

VARIABLES
    world,      \* live world: [ents: Entity -> components, children: Entity -> list]
    materials,  \* Assets<StandardMaterial>: material id -> flip_normal_map_y, loaded ones only
    procCmds,   \* Commands queued by proc_scene in this frame
    loadCmds,   \* Commands queued by load_scene in this frame
    saveEvents, \* Events<SaveScene>: [a: older buffer, b: newer buffer] (lengths)
    loadEvents, \* Events<LoadScene>: [a, b] plus load_scene's reader: unread
    keys,       \* Input<KeyCode>: the keys input_scene found just pressed in this frame
    ran,        \* the systems that have already run in this frame
    tasks,      \* IoTaskPool: the payloads of the detached write tasks still pending
    file,       \* assets/scenes/night.scn.ron: <<>> if absent, else <<payload>>
    asset,      \* the asset server's state of scenes/night.scn.ron
    drained,    \* the signals save_scene and load_scene consumed in this frame
    visited,    \* the closure invocations of all_children, in order
    log,        \* how the last write task that ended did end
    night       \* Assets<DynamicScene>: <<>> or <<the scene read from the file>>

vars == <<world, materials, procCmds, loadCmds, saveEvents, loadEvents, keys,
          ran, tasks, file, asset, drained, visited, log, night>>

(***************************************************************************)
(* Bounds of the model.                                                    *)
(***************************************************************************)
SceneN   == 2   \* entities of one imported scene
NumMats  == 1   \* material assets the imported scenes refer to
MaxTasks == 1   \* detached write tasks pending at once
MaxLoads == 1   \* scene-holder entities spawned by load_scene
IoTasks  == 2   \* the same two bounds where the save and load paths
IoLoads  == 2   \*   are specified without the imported scenes
WalkN    == 4   \* entities of a hierarchy handed to all_children alone

(***************************************************************************)
(* Program constants.                                                      *)
(***************************************************************************)
NumScenes == 2    \* setup spawns two SceneBundles carrying PostProcScene
NumLights == 26   \* save_scene: for i in 0..26
LightY    == 5    \* Transform::from_xyz(i, 5.0, 0.0)
LightZ    == 0

(***************************************************************************)
(* Entities.  setup spawns the two scene roots and the camera; the scene   *)
(* spawner gives every root its own imported entities; load_scene spawns   *)
(* the holders of the loaded night scene.                                  *)
(***************************************************************************)
Roots        == 1 .. NumScenes
AppCamera    == NumScenes + 1
SceneBase(r) == 10 * r
SceneEnts(r) == { SceneBase(r) + k : k \in 1 .. SceneN }
Holder(j)    == 100 + j
Holders      == { Holder(j) : j \in 1 .. MaxLoads } \cup { Holder(j) : j \in 1 .. IoLoads }
Spawned(j, k) == 200 + NumLights * (j - 1) + k
WalkEnts     == 1 .. WalkN
Entity       == (0 .. (NumScenes + 1)) \cup UNION { SceneEnts(r) : r \in Roots }
                    \cup Holders \cup WalkEnts
MatIds       == 1 .. NumMats

\* The components of an entity the systems of main.rs look at.
\*   pps: PostProcScene, light: PointLight/DirectionalLight/SpotLight,
\*   grif: GrifLight, cam: Camera, mat: Handle<StandardMaterial> (0: none)
Comp(pps, light, grif, cam, mat) ==
    [pps |-> pps, light |-> light, grif |-> grif, cam |-> cam, mat |-> mat]
Plain == Comp(FALSE, FALSE, FALSE, FALSE, 0)

Alive(w, e) == e \in DOMAIN w.ents

(***************************************************************************)
(* all_children (lines 199-210).  The closure is called once per loop      *)
(* iteration, after the recursion into the child's own Children; the       *)
(* operator returns the sequence of entities the closure is called with.   *)
(* children_query.get(child) is Ok exactly when child has a Children       *)
(* component, i.e. child \in DOMAIN cq.                                    *)
(***************************************************************************)
RECURSIVE all_children_preorder(_, _)
all_children_preorder(children, children_query) ==
    IF children = <<>> THEN <<>>
    ELSE LET child == Head(children)
             below == IF child \in DOMAIN children_query
                        THEN all_children_preorder(children_query[child], children_query)
                        ELSE <<>>
         IN  <<child>> \o below \o all_children_preorder(Tail(children), children_query)

RECURSIVE all_children_shallow(_, _)
all_children_shallow(children, children_query) ==
    IF children = <<>> THEN <<>>
    ELSE <<Head(children)>> \o all_children_shallow(Tail(children), children_query)

RECURSIVE all_children(_, _)
all_children(children, children_query) ==
    IF children = <<>> THEN <<>>
    ELSE LET child == Head(children)
             below == IF child \in DOMAIN children_query
                        THEN all_children(children_query[child], children_query)
                        ELSE <<>>
         IN  below \o <<child>> \o all_children(Tail(children), children_query)

Range(s) == { s[i] : i \in DOMAIN s }

(***************************************************************************)
(* The hierarchy of the live world.  Children lists hold live entities     *)
(* only; an entity without a Children component is not in DOMAIN children. *)
(***************************************************************************)
RECURSIVE Descendants(_, _)
Descendants(w, e) ==
    IF e \in DOMAIN w.children
      THEN UNION { {c} \cup Descendants(w, c) : c \in Range(w.children[e]) }
      ELSE {}

\* despawn_recursive (lines 240, 245) as the command applies it: the entity's
\* parent forgets it, then the entity and everything below it are despawned.
\* Applied to an entity that is no longer alive it changes nothing.
despawn_recursive(w, e) ==
    IF ~Alive(w, e) THEN w
    ELSE LET gone == {e} \cup Descendants(w, e)
         IN  [ents     |-> [x \in DOMAIN w.ents \ gone |-> w.ents[x]],
              children |-> [p \in DOMAIN w.children \ gone |->
                              SelectSeq(w.children[p], LAMBDA c : c # e)]]

\* remove::<PostProcScene>() (line 248) as the command applies it.
remove_PostProcScene(w, e) ==
    IF ~Alive(w, e) THEN w
    ELSE [w EXCEPT !.ents[e].pps = FALSE]

\* commands.spawn(DynamicSceneBundle {..}) (lines 156-159) as the command
\* applies it: a new top-level entity, no Children, handle unresolved.
spawn_holder(w, e) ==
    [w EXCEPT !.ents = [x \in DOMAIN w.ents \cup {e} |->
                          IF x = e THEN Plain ELSE w.ents[x]]]

ApplyCommand(w, c) ==
    CASE c[1] = "despawn_recursive" -> despawn_recursive(w, c[2])
      [] c[1] = "remove_pps"        -> remove_PostProcScene(w, c[2])
      [] c[1] = "spawn"             -> spawn_holder(w, c[2])

\* The application of the commands giving up at the first despawn whose
\* target is not alive any more.
RECURSIVE ApplyCommandsStrict(_, _)
ApplyCommandsStrict(w, cmds) ==
    IF cmds = <<>> THEN w
    ELSE IF Head(cmds)[1] = "despawn_recursive" /\ ~Alive(w, Head(cmds)[2]) THEN w
    ELSE CHOOSE out \in { ApplyCommandsStrict(w1, Tail(cmds)) :
                            w1 \in {ApplyCommand(w, Head(cmds))} } : TRUE

RECURSIVE ApplyCommands(_, _)
ApplyCommands(w, cmds) ==
    IF cmds = <<>> THEN w
    ELSE CHOOSE out \in { ApplyCommands(w1, Tail(cmds)) :
                            w1 \in {ApplyCommand(w, Head(cmds))} } : TRUE

(***************************************************************************)
(* proc_scene (lines 213-251).                                             *)
(***************************************************************************)
\* The lights query without its Without<GrifLight> filter (line 223).
IsAnyLight(w, e) == Alive(w, e) /\ w.ents[e].light

\* The lights query (lines 219-225) and the cameras query (line 226).
IsRemovableLight(w, e) == Alive(w, e) /\ w.ents[e].light /\ ~w.ents[e].grif
IsCamera(w, e)         == Alive(w, e) /\ w.ents[e].cam

\* The closure without its camera test (lines 243-246 left out).
SanitizeEntityNoCameras(w, st, entity) ==
    LET mat_h == IF Alive(w, entity) THEN w.ents[entity].mat ELSE 0
    IN  [mats |-> IF mat_h # 0 /\ mat_h \in DOMAIN st.mats
                    THEN [st.mats EXCEPT ![mat_h] = TRUE]
                    ELSE st.mats,
         cmds |-> IF IsRemovableLight(w, entity)
                    THEN Append(st.cmds, <<"despawn_recursive", entity>>)
                    ELSE st.cmds]

\* The closure inverting the flag (line 234 as mat.flip_normal_map_y =
\* !mat.flip_normal_map_y).
SanitizeEntityToggle(w, st, entity) ==
    LET mat_h == IF Alive(w, entity) THEN w.ents[entity].mat ELSE 0
        mats1 == IF mat_h # 0 /\ mat_h \in DOMAIN st.mats
                   THEN [st.mats EXCEPT ![mat_h] = ~@]
                   ELSE st.mats
        cmds1 == IF IsRemovableLight(w, entity)
                   THEN Append(st.cmds, <<"despawn_recursive", entity>>)
                   ELSE st.cmds
        cmds2 == IF IsCamera(w, entity)
                   THEN Append(cmds1, <<"despawn_recursive", entity>>)
                   ELSE cmds1
    IN  [mats |-> mats1, cmds |-> cmds2]

\* The closure of lines 230-247 applied to one entity; st = [mats, cmds].
SanitizeEntity(w, st, entity) ==
    LET mat_h == IF Alive(w, entity) THEN w.ents[entity].mat ELSE 0
        mats1 == IF mat_h # 0 /\ mat_h \in DOMAIN st.mats
                   THEN [st.mats EXCEPT ![mat_h] = TRUE]
                   ELSE st.mats
        cmds1 == IF IsRemovableLight(w, entity)
                   THEN Append(st.cmds, <<"despawn_recursive", entity>>)
                   ELSE st.cmds
        cmds2 == IF IsCamera(w, entity)
                   THEN Append(cmds1, <<"despawn_recursive", entity>>)
                   ELSE cmds1
    IN  [mats |-> mats1, cmds |-> cmds2]

\* The closure applied along the walk.  (The state after each call is bound
\* as a value before the next call is made on it.)
RECURSIVE SanitizeAll(_, _, _)
SanitizeAll(w, st, walk) ==
    IF walk = <<>> THEN st
    ELSE CHOOSE out \in
           { CHOOSE next \in { SanitizeAll(w, st1, rest) :
                                 st1 \in {SanitizeEntity(w, st, entity)} } : TRUE :
               entity \in {Head(walk)}, rest \in {Tail(walk)} } : TRUE

\* The iteration without the test of line 229: a root that has no children
\* is walked as one that has none to visit, and loses its marker.
SanitizeRootAlways(w, st, entity) ==
    CHOOSE out \in
      { CHOOSE root \in
          { [mats |-> done.mats,
             cmds |-> Append(done.cmds, <<"remove_pps", entity>>),
             seen |-> st.seen \o walk] :
              done \in {SanitizeAll(w, [mats |-> st.mats, cmds |-> st.cmds], walk)} } : TRUE :
          walk \in {IF entity \in DOMAIN w.children
                      THEN all_children(w.children[entity], w.children)
                      ELSE <<>>} } : TRUE

\* One iteration of the loop of line 228 (lines 229-249); st = [mats, cmds, seen].
SanitizeRoot(w, st, entity) ==
    IF entity \in DOMAIN w.children
      THEN CHOOSE out \in
             { CHOOSE root \in
                 { [mats |-> done.mats,
                    cmds |-> Append(done.cmds, <<"remove_pps", entity>>),
                    seen |-> st.seen \o walk] :
                     done \in {SanitizeAll(w, [mats |-> st.mats, cmds |-> st.cmds],
                                           walk)} } : TRUE :
                 walk \in {all_children(w.children[entity], w.children)} } : TRUE
      ELSE st

\* flip_normals_query.iter() (line 228): the live entities carrying
\* PostProcScene, taken in ascending order of their ids.
RECURSIVE SanitizeRoots(_, _, _)
SanitizeRoots(w, st, pending) ==
    IF pending = {} THEN st
    ELSE CHOOSE out \in
           { CHOOSE next \in { SanitizeRoots(w, st1, rest) :
                                 st1 \in {SanitizeRoot(w, st, entity)} } : TRUE :
               entity \in { x \in pending : \A y \in pending : x <= y },
               rest \in { { y \in pending : \E x \in pending : x < y } } } : TRUE

\* The query of line 215 without its With<PostProcScene> filter, on the
\* entities holding a scene.
MarkedOrNot(w) == Roots \cap DOMAIN w.ents

Marked(w) == { e \in DOMAIN w.ents : w.ents[e].pps }

Systems == {"proc_scene", "save_scene", "input_scene", "load_scene"}

Ran(name) == ran' = ran \cup {name}

\* proc_scene despawning the camera of setup as well, taken from the
\* cameras query and not from the walk.
proc_scene_every_camera ==
    /\ "proc_scene" \notin ran
    /\ \E done \in {SanitizeRoots(world, [mats |-> materials, cmds |-> <<>>, seen |-> <<>>],
                                    Marked(world))} :
           /\ materials' = done.mats
           /\ procCmds'  = IF IsCamera(world, AppCamera)
                              THEN Append(done.cmds, <<"despawn_recursive", AppCamera>>)
                              ELSE done.cmds
           /\ visited'   = done.seen
    /\ Ran("proc_scene")
    /\ UNCHANGED <<log, night, world, loadCmds, saveEvents, loadEvents, keys, tasks, file, asset,
                   drained>>

\* proc_scene despawning and removing the marker on the spot, not through
\* the deferred Commands.
proc_scene_immediate ==
    /\ "proc_scene" \notin ran
    /\ \E done \in {SanitizeRoots(world, [mats |-> materials, cmds |-> <<>>, seen |-> <<>>],
                                    Marked(world))} :
           /\ materials' = done.mats
           /\ world'     = ApplyCommands(world, done.cmds)
           /\ visited'   = done.seen
    /\ Ran("proc_scene")
    /\ UNCHANGED <<log, night, procCmds, loadCmds, saveEvents, loadEvents, keys, tasks, file, asset,
                   drained>>

proc_scene ==
    /\ "proc_scene" \notin ran
    /\ \E done \in {SanitizeRoots(world, [mats |-> materials, cmds |-> <<>>, seen |-> <<>>],
                                    Marked(world))} :
           /\ materials' = done.mats
           /\ procCmds'  = done.cmds
           /\ visited'   = done.seen
    /\ Ran("proc_scene")
    /\ UNCHANGED <<log, night, world, loadCmds, saveEvents, loadEvents, keys, tasks, file, asset,
                   drained>>

(***************************************************************************)
(* save_scene (lines 163-197).                                             *)
(***************************************************************************)
EmptyWorld == [ents |-> <<>>, children |-> <<>>]

\* scene_world.spawn(PointLightBundle {..}) (lines 173-180): the new entity
\* takes the next free index of the world it is spawned into.
SpawnPointLight(w, i) ==
    LET id == Cardinality(DOMAIN w.ents)
    IN  [w EXCEPT !.ents = [x \in DOMAIN w.ents \cup {id} |->
                              IF x = id
                                THEN [kind  |-> "PointLight",
                                      color |-> "YELLOW",
                                      pos   |-> <<i, LightY, LightZ>>]
                                ELSE w.ents[x]]]

\* for i in 0..26 (lines 172-181), from iteration i on.
RECURSIVE SpawnLights(_, _)
SpawnLights(w, i) ==
    IF i >= NumLights THEN w
    ELSE SpawnLights(SpawnPointLight(w, i), i + 1)

\* Every entity index a world of the model may hold, in ascending order.
EntityIndices ==
    LET ends == { Spawned(h - Holder(0), NumLights) : h \in Holders } \cup {NumLights}
        last == CHOOSE x \in ends : \A y \in ends : y <= x
    IN  [k \in 1 .. last + 1 |-> k - 1]

\* DynamicScene::from_world (line 184): every entity of the given world with
\* its components, in the order of the entity ids.
DynamicScene_from_world(w) ==
    CHOOSE scene \in
      { [k \in DOMAIN ids |-> [entity |-> ids[k], components |-> w.ents[ids[k]]]] :
          ids \in {SelectSeq(EntityIndices, LAMBDA e : e \in DOMAIN w.ents)} } : TRUE

\* scene_world after the loop (lines 170-181).
SceneWorld == SpawnLights(EmptyWorld, 0)

\* The snapshot taken from the live world passed to the system.
SnapshotSourceLive(live) == live

\* The world the snapshot is taken from (lines 170-184): the scene_world
\* built in the function, not the live world passed to the system.
SnapshotSource(live) == SceneWorld

\* scene.serialize_ron (line 186): the text of the scene, entity by entity,
\* closed by the bracket that ends the list of entities.
serialize_ron(scene) ==
    [k \in 1 .. Len(scene) + 1 |->
        IF k <= Len(scene)
          THEN <<"entity", scene[k].entity, "components", scene[k].components>>
          ELSE <<")">>]

\* q.is_empty() (line 165) looks at both buffers of the queue.
SavePending == saveEvents.a + saveEvents.b

\* q.clear() (line 166) left out.
Events_clear_nothing(ev) == ev

\* q.clear() (line 166) empties both buffers.
Events_clear(ev) == [ev EXCEPT !.a = 0, !.b = 0]

\* save_scene waiting for its write (the task run in place, not detached).
save_scene_blocking ==
    /\ "save_scene" \notin ran
    /\ IF SavePending > 0
         THEN /\ saveEvents' = Events_clear(saveEvents)
              /\ \E scene \in {DynamicScene_from_world(SnapshotSource(world))} :
                   \E serialized_scene \in {serialize_ron(scene)} :
                     file' = <<serialized_scene>>
              /\ drained' = [drained EXCEPT !.save = SavePending]
         ELSE UNCHANGED <<saveEvents, file, drained>>
    /\ Ran("save_scene")
    /\ UNCHANGED <<log, night, world, materials, procCmds, loadCmds, loadEvents, keys, tasks,
                   asset, visited>>

\* save_scene dropping the write tasks still pending when it starts one.
save_scene_cancelling ==
    /\ "save_scene" \notin ran
    /\ IF SavePending > 0
         THEN /\ saveEvents' = Events_clear(saveEvents)
              /\ \E scene \in {DynamicScene_from_world(SnapshotSource(world))} :
                   \E serialized_scene \in {serialize_ron(scene)} :
                     tasks' = <<serialized_scene>>
              /\ drained' = [drained EXCEPT !.save = SavePending]
         ELSE UNCHANGED <<saveEvents, tasks, drained>>
    /\ Ran("save_scene")
    /\ UNCHANGED <<log, night, world, materials, procCmds, loadCmds, loadEvents, keys, file,
                   asset, visited>>

\* save_scene spawning its lights into the world it is given, not into
\* scene_world.
save_scene_in_live ==
    /\ "save_scene" \notin ran
    /\ IF SavePending > 0
         THEN /\ saveEvents' = Events_clear(saveEvents)
              /\ \E scene \in {DynamicScene_from_world(SnapshotSource(world))} :
                   \E serialized_scene \in {serialize_ron(scene)} :
                     /\ tasks' = Append(tasks, serialized_scene)
                     /\ world' = [world EXCEPT !.ents =
                           [x \in DOMAIN world.ents \cup { Spawned(1, k) : k \in DOMAIN scene } |->
                              IF x \in DOMAIN world.ents
                                THEN world.ents[x]
                                ELSE Comp(FALSE, TRUE, FALSE, FALSE, 0)]]
              /\ drained' = [drained EXCEPT !.save = SavePending]
         ELSE UNCHANGED <<saveEvents, tasks, drained, world>>
    /\ Ran("save_scene")
    /\ UNCHANGED <<log, night, materials, procCmds, loadCmds, loadEvents, keys, file,
                   asset, visited>>

save_scene ==
    /\ "save_scene" \notin ran
    /\ IF SavePending > 0
         THEN /\ saveEvents' = Events_clear(saveEvents)
              /\ \E scene \in {DynamicScene_from_world(SnapshotSource(world))} :
                   \E serialized_scene \in {serialize_ron(scene)} :
                     tasks' = Append(tasks, serialized_scene)
              /\ drained' = [drained EXCEPT !.save = SavePending]
         ELSE UNCHANGED <<saveEvents, tasks, drained>>
    /\ Ran("save_scene")
    /\ UNCHANGED <<log, night, world, materials, procCmds, loadCmds, loadEvents, keys, file,
                   asset, visited>>

(***************************************************************************)
(* input_scene (lines 135-146).                                            *)
(***************************************************************************)
LiveHolders(w) == Holders \cap DOMAIN w.ents

\* The keys the user may have just pressed in the frame: a press is left
\* out when the save or load it leads to would take the pending write tasks
\* beyond maxTasks or the spawned holders beyond maxLoads.
KeySets(maxTasks, maxLoads) ==
    { k \in SUBSET {"Y", "H"} :
        /\ "Y" \in k => Len(tasks) < maxTasks
        /\ "H" \in k => Cardinality(LiveHolders(world)) + Len(loadCmds) < maxLoads }

\* input_scene with the H branch sending SaveScene as the Y branch does.
input_scene_both_save(pressable) ==
    /\ "input_scene" \notin ran
    /\ \E k \in pressable :
          /\ keys' = k
          /\ saveEvents' = [saveEvents EXCEPT !.b = @ + Cardinality(k)]
    /\ loadEvents' = loadEvents
    /\ Ran("input_scene")
    /\ UNCHANGED <<log, night, world, materials, procCmds, loadCmds, tasks, file, asset,
                   visited, drained>>

\* pressable: the sets of keys the user may have just pressed in the frame.
input_scene(pressable) ==
    /\ "input_scene" \notin ran
    /\ \E k \in pressable :
          /\ keys' = k
          /\ saveEvents' = IF "Y" \in k
                             THEN [saveEvents EXCEPT !.b = @ + 1]
                             ELSE saveEvents
          /\ loadEvents' = IF "H" \in k
                             THEN [loadEvents EXCEPT !.b = @ + 1, !.unread = @ + 1]
                             ELSE loadEvents
    /\ Ran("input_scene")
    /\ UNCHANGED <<log, night, world, materials, procCmds, loadCmds, tasks, file, asset,
                   visited, drained>>

(***************************************************************************)
(* load_scene (lines 148-161).                                             *)
(***************************************************************************)
\* asset_server.load("scenes/night.scn.ron") (line 157): starts the read
\* unless the asset is already loading or loaded; never waits for it.
RequestAsset(a) == IF a \in {"none", "failed"} THEN "loading" ELSE a

\* The events still in the queue, read or not.
LoadBuffered == loadEvents.a + loadEvents.b

\* The test of line 153 taken on the queue itself, not on the reader.
LoadPendingBuffered == loadEvents.a + loadEvents.b

\* events.is_empty() (line 153) is about the events this reader has not
\* read yet; events.clear() (line 154) marks all of them read.
LoadPending == loadEvents.unread

load_scene ==
    /\ "load_scene" \notin ran
    /\ IF LoadPending > 0
         THEN /\ loadEvents' = [loadEvents EXCEPT !.unread = 0]
              /\ asset' = RequestAsset(asset)
              /\ loadCmds' = Append(loadCmds,
                     <<"spawn", Holder(Cardinality(LiveHolders(world)) + Len(loadCmds) + 1)>>)
              /\ drained' = [drained EXCEPT !.load = LoadPending]
         ELSE UNCHANGED <<loadEvents, asset, loadCmds, drained>>
    /\ Ran("load_scene")
    /\ UNCHANGED <<log, night, world, materials, procCmds, saveEvents, keys, tasks, file, visited>>

(***************************************************************************)
(* The frame boundary: the commands the systems queued are applied at the  *)
(* end of the stage (proc_scene's, then load_scene's, in the order main    *)
(* adds the systems); the next frame starts with the update of both event  *)
(* queues registered by add_event (lines 64-65), which drops the older     *)
(* buffer.                                                                 *)
(***************************************************************************)
Min(x, y) == IF x <= y THEN x ELSE y

UpdateEvents(ev) == [ev EXCEPT !.a = ev.b, !.b = 0]

UpdateReader(ev) == [a |-> ev.b, b |-> 0, unread |-> Min(ev.unread, ev.b)]

end_frame ==
    /\ ran = Systems
    /\ \E w1 \in {ApplyCommands(world, procCmds)} :
          world' = ApplyCommands(w1, loadCmds)
    /\ saveEvents' = UpdateEvents(saveEvents)
    /\ loadEvents' = UpdateReader(loadEvents)
    /\ keys' = {}
    /\ ran' = {}
    /\ procCmds' = <<>>
    /\ loadCmds' = <<>>
    /\ visited' = <<>>
    /\ drained' = [save |-> 0, load |-> 0]
    /\ UNCHANGED <<log, night, materials, tasks, file, asset>>

(***************************************************************************)
(* The collaborators of main.rs.                                           *)
(***************************************************************************)
\* What an imported entity may be: a mesh with a material, a light, a light
\* carrying GrifLight, a camera, or a light, with GrifLight or without, that
\* is a camera as well.
SceneKinds ==
    { Comp(FALSE, FALSE, FALSE, FALSE, m) : m \in MatIds }
      \cup { Comp(FALSE, TRUE, FALSE, FALSE, 0), Comp(FALSE, TRUE, TRUE, FALSE, 0),
              Comp(FALSE, FALSE, FALSE, TRUE, 0), Comp(FALSE, TRUE, FALSE, TRUE, 0),
              Comp(FALSE, TRUE, TRUE, TRUE, 0) }

\* An imported scene: entity k hangs under the root (par[k] = 0) or under an
\* earlier entity of the scene.
Scenes ==
    { t \in [par : [1 .. SceneN -> 0 .. SceneN - 1], kind : [1 .. SceneN -> SceneKinds]] :
        \A k \in 1 .. SceneN : t.par[k] < k }

RECURSIVE Ascending(_)
Ascending(S) ==
    IF S = {} THEN <<>>
    ELSE LET x == CHOOSE a \in S : \A b \in S : a <= b
         IN  <<x>> \o Ascending(S \ {x})

\* The scene spawner attaches the entities of the loaded scene (lines 83-96)
\* under its root, between two frames.
AttachScene(w, r, t) ==
    LET id(k)   == IF k = 0 THEN r ELSE SceneBase(r) + k
        kidsOf(j) == { id(k) : k \in { k \in 1 .. SceneN : t.par[k] = j } }
        parents == { j \in 0 .. SceneN : kidsOf(j) # {} }
    IN  [ents     |-> [x \in DOMAIN w.ents \cup SceneEnts(r) |->
                          IF x \in SceneEnts(r) THEN t.kind[x - SceneBase(r)]
                                               ELSE w.ents[x]],
         children |-> [p \in DOMAIN w.children \cup { id(j) : j \in parents } |->
                          IF p \in DOMAIN w.children THEN w.children[p]
                          ELSE Ascending(kidsOf(IF p = r THEN 0 ELSE p - SceneBase(r)))]]

\* The scenes of the bound in which the entities form one chain under the
\* root: a mesh, then lights below it.
ChainScenes ==
    { t \in Scenes : \A k \in 1 .. SceneN :
        /\ t.par[k] = k - 1
        /\ t.kind[k] = IF k = 1 THEN Comp(FALSE, FALSE, FALSE, FALSE, 1)
                                ELSE Comp(FALSE, TRUE, FALSE, FALSE, 0) }

\* sceneOf[r]: the scenes the file of root r may hold.
scene_spawn(sceneOf) ==
    /\ ran = {}
    /\ \E r \in Roots :
          /\ Alive(world, r)
          /\ r \notin DOMAIN world.children
          /\ \E t \in sceneOf[r] : world' = AttachScene(world, r, t)
    /\ UNCHANGED <<log, night, materials, procCmds, loadCmds, saveEvents, loadEvents, keys, ran,
                   tasks, file, asset, visited, drained>>

\* The materials the given scenes refer to.
MaterialsIn(scenes) == { t.kind[k].mat : t \in scenes, k \in 1 .. SceneN } \ {0}

ChainMaterials == MaterialsIn(ChainScenes)
SceneMaterials == MaterialsIn(Scenes)

\* A material of an imported scene arrives in Assets<StandardMaterial>,
\* with flip_normal_map_y off, between two frames.
material_loaded(arriving) ==
    /\ ran = {}
    /\ \E m \in arriving \ DOMAIN materials :
          materials' = [x \in DOMAIN materials \cup {m} |->
                          IF x = m THEN FALSE ELSE materials[x]]
    /\ UNCHANGED <<log, night, world, procCmds, loadCmds, saveEvents, loadEvents, keys, ran,
                   tasks, file, asset, visited, drained>>

\* How the body of a detached write task (lines 190-193) may end:
\*   "create_failed": File::create returns an error, expect panics;
\*   "write_failed":  File::create has emptied the file, write returns an
\*                    error, expect panics;
\*   "short":         write, which makes one attempt, returns Ok(n) with n
\*                    less than the length of the text; expect is satisfied;
\*   "written":       write returns Ok(n) with n the length of the text.
WriteOutcomes == {"create_failed", "write_failed", "short", "written"}

\* The task cannot start to write, or writes the whole text.
WholeWrites == {"create_failed", "written"}

\* The beginning of the text a short write leaves in the file.
ShortWrite(text) == SubSeq(text, 1, Len(text) - 1)

FileAfter(outcome, text, old) ==
    CASE outcome = "create_failed" -> old
      [] outcome = "write_failed"  -> << <<>> >>
      [] outcome = "short"         -> <<ShortWrite(text)>>
      [] outcome = "written"       -> <<text>>

\* expect (line 192) panics on an error and ends the task there; otherwise
\* the task logs "Saving scene done" (line 193).
LogAfter(outcome) ==
    IF outcome \in {"create_failed", "write_failed"} THEN "panicked" ELSE "done"

\* A detached write task (lines 189-194) runs on the I/O pool, at any time.
write_task(outcomes) ==
    /\ tasks # <<>>
    /\ \E outcome \in outcomes :
          /\ file' = FileAfter(outcome, Head(tasks), file)
          /\ log'  = LogAfter(outcome)
    /\ tasks' = Tail(tasks)
    /\ UNCHANGED <<night, world, materials, procCmds, loadCmds, saveEvents, loadEvents,
                   keys, ran, asset, visited, drained>>

\* The asset loader's parse of the text of a scene: the entities up to the
\* closing bracket; a text without its closing bracket is not a scene.
IsSceneText(text) == text # <<>> /\ text[Len(text)] = <<")">>

deserialize_ron(text) ==
    [k \in 1 .. Len(text) - 1 |-> [entity |-> text[k][2], components |-> text[k][4]]]

\* The file save_scene's task writes (line 190), and the file the asset
\* server reads for load_scene's request (line 157) under its asset folder.
SaveFilePath == <<"assets", "scenes", "night.scn.ron">>
AssetFolder  == <<"assets">>

LoadFilePath == <<"scenes", "night.scn.ron">>

\* What the asset server finds at a path: <<>> or <<the text of the file>>.
FileAt(path) == IF path = SaveFilePath THEN file ELSE <<>>

\* The asset server's read of scenes/night.scn.ron, at any time.
read_task ==
    /\ asset = "loading"
    /\ \E found \in {FileAt(AssetFolder \o LoadFilePath)} :
          IF found # <<>> /\ IsSceneText(found[1])
            THEN /\ asset' = "loaded"
                 /\ night' = <<deserialize_ron(found[1])>>
            ELSE /\ asset' = "failed"
                 /\ night' = night
    /\ UNCHANGED <<log, world, materials, procCmds, loadCmds, saveEvents, loadEvents,
                   keys, ran, tasks, file, visited, drained>>

\* The entity the scene spawner makes of an entity of a loaded scene.
LightKinds == {"PointLight", "DirectionalLight", "SpotLight"}

Instance(c) ==
    [pps |-> FALSE, light |-> c.kind \in LightKinds, grif |-> FALSE, cam |-> FALSE,
     mat |-> 0, kind |-> c.kind, color |-> c.color, pos |-> c.pos]

\* The entities of the scene become new entities of the world, children of
\* the holder, in the order of the scene.
InstantiateScene(w, j, scene) ==
    LET new == { Spawned(j, k) : k \in DOMAIN scene }
    IN  [ents     |-> [x \in DOMAIN w.ents \cup new |->
                          IF x \in DOMAIN w.ents
                            THEN w.ents[x]
                            ELSE Instance(scene[x - Spawned(j, 0)].components)],
         children |-> [p \in DOMAIN w.children \cup {Holder(j)} |->
                          IF p = Holder(j) THEN [k \in DOMAIN scene |-> Spawned(j, k)]
                                           ELSE w.children[p]]]

\* The scene spawner gives a holder spawned by load_scene (lines 156-159)
\* the entities of the scene its handle refers to, once that scene is
\* loaded, between two frames.
scene_instantiate ==
    /\ ran = {}
    /\ asset = "loaded"
    /\ \E h \in LiveHolders(world) \ DOMAIN world.children :
          world' = InstantiateScene(world, h - Holder(0), night[1])
    /\ UNCHANGED <<materials, procCmds, loadCmds, saveEvents, loadEvents, keys, ran,
                   tasks, file, asset, visited, drained, log, night>>

(***************************************************************************)
(* The application: setup (lines 79-130) has spawned the two scene roots   *)
(* with PostProcScene and the camera; nothing is loaded yet.               *)
(***************************************************************************)
SetupWorld ==
    [ents     |-> [e \in Roots \cup {AppCamera} |->
                      IF e \in Roots THEN Comp(TRUE, FALSE, FALSE, FALSE, 0)
                                     ELSE Comp(FALSE, FALSE, FALSE, TRUE, 0)],
     children |-> <<>>]

Init ==
    /\ world = SetupWorld
    /\ materials = <<>>
    /\ procCmds = <<>>
    /\ loadCmds = <<>>
    /\ saveEvents = [a |-> 0, b |-> 0]
    /\ loadEvents = [a |-> 0, b |-> 0, unread |-> 0]
    /\ keys = {}
    /\ ran = {}
    /\ tasks = <<>>
    /\ file = <<>>
    /\ asset = "none"
    /\ drained = [save |-> 0, load |-> 0]
    /\ visited = <<>>
    /\ log = "none"
    /\ night = <<>>

\* The application with its keyboard; both scene files hold a chain scene.
Next ==
    \/ proc_scene
    \/ save_scene
    \/ input_scene(KeySets(MaxTasks, MaxLoads))
    \/ load_scene
    \/ end_frame
    \/ scene_spawn([r \in Roots |-> ChainScenes])
    \/ material_loaded(ChainMaterials)
    \/ write_task(WholeWrites)
    \/ read_task

Spec == Init /\ [][Next]_vars

\* The application when no key is ever pressed (no save or load is then
\* requested, and no I/O task exists); the first scene file holds any scene
\* of the bound, the others a chain scene.
NextScene ==
    \/ proc_scene
    \/ save_scene
    \/ input_scene({{}})
    \/ load_scene
    \/ end_frame
    \/ scene_spawn([r \in Roots |-> IF r = 1 THEN Scenes ELSE ChainScenes])
    \/ material_loaded(SceneMaterials)

SpecScene == Init /\ [][NextScene]_vars

(***************************************************************************)
(* all_children on its own: any hierarchy over WalkN entities and the      *)
(* walked root 0.  Entity k hangs under the root, under an earlier entity, *)
(* or (par[k] = -1) under nothing; a childless entity may still carry an   *)
(* empty Children component; lists are in ascending or descending order.   *)
(***************************************************************************)
WalkRoot == 0

Reverse(s) == [i \in 1 .. Len(s) |-> s[Len(s) + 1 - i]]

WalkWorld(par, hollow, rev) ==
    LET kidsOf(p) == { k \in WalkEnts : par[k] = p }
        withKids  == { p \in {WalkRoot} \cup WalkEnts : kidsOf(p) # {} } \cup hollow
    IN  [ents     |-> [e \in {WalkRoot} \cup WalkEnts |-> Plain],
         children |-> [p \in withKids |->
                          IF rev THEN Reverse(Ascending(kidsOf(p)))
                                 ELSE Ascending(kidsOf(p))]]

InitWalk ==
    /\ \E par \in [WalkEnts -> -1 .. WalkN - 1] :
         \E hollow \in SUBSET WalkEnts :
          \E rev \in BOOLEAN :
            /\ \A k \in WalkEnts : par[k] < k
            /\ \A h \in hollow : \A k \in WalkEnts : par[k] # h
            /\ world = WalkWorld(par, hollow, rev)
    /\ materials = <<>>
    /\ procCmds = <<>>
    /\ loadCmds = <<>>
    /\ saveEvents = [a |-> 0, b |-> 0]
    /\ loadEvents = [a |-> 0, b |-> 0, unread |-> 0]
    /\ keys = {}
    /\ ran = {}
    /\ tasks = <<>>
    /\ file = <<>>
    /\ asset = "none"
    /\ drained = [save |-> 0, load |-> 0]
    /\ visited = <<>>
    /\ log = "none"
    /\ night = <<>>

\* The application while its two scene files are still loading (nothing is
\* attached under the roots yet), with the fairness of app.run (line 69):
\* every frame runs each of the four systems and ends.
NextKeys ==
    \/ proc_scene
    \/ save_scene
    \/ input_scene(KeySets(MaxTasks, MaxLoads))
    \/ load_scene
    \/ end_frame
    \/ write_task(WholeWrites)
    \/ read_task

\* The save and load paths while the two scene files are still loading:
\* every way a write task may end, and the scene spawner at work on the
\* holders.
NextIO ==
    \/ proc_scene
    \/ save_scene
    \/ input_scene(KeySets(IoTasks, IoLoads))
    \/ load_scene
    \/ end_frame
    \/ write_task(WriteOutcomes)
    \/ read_task
    \/ scene_instantiate

SpecIO == Init /\ [][NextIO]_vars

FairSpec ==
    /\ Init
    /\ [][NextKeys]_vars
    /\ WF_vars(proc_scene)
    /\ WF_vars(save_scene)
    /\ WF_vars(input_scene(KeySets(MaxTasks, MaxLoads)))
    /\ WF_vars(load_scene)
    /\ WF_vars(end_frame)

\* The call of line 230, for a root that has a Children component.
walk ==
    /\ ran = {}
    /\ WalkRoot \in DOMAIN world.children
    /\ visited' = all_children(world.children[WalkRoot], world.children)
    /\ ran' = {"all_children"}
    /\ UNCHANGED <<log, night, world, materials, procCmds, loadCmds, saveEvents, loadEvents, keys,
                   tasks, file, asset, drained>>

NextWalk == walk

SpecWalk == InitWalk /\ [][NextWalk]_vars

(***************************************************************************)
(* Properties.                                                             *)
(***************************************************************************)
Count(seq, e) == Cardinality({ i \in DOMAIN seq : seq[i] = e })

Pos(seq, e) == CHOOSE i \in DOMAIN seq : seq[i] = e

ParentsOf(w, e) == { p \in DOMAIN w.children : e \in Range(w.children[p]) }

RECURSIVE Ancestors(_, _)
Ancestors(w, e) ==
    LET ps == ParentsOf(w, e)
    IN  ps \cup UNION { Ancestors(w, p) : p \in ps }

Walked == "all_children" \in ran

\* C1: all_children calls the action exactly once on every entity that has
\* the walked root among its ancestors, and never on any other entity (so
\* never on the root); an entity without a Children component is a leaf of
\* the walk.
C1_EachDescendantOnce ==
    Walked =>
        /\ Range(visited) \subseteq DOMAIN world.ents
        /\ \A e \in DOMAIN world.ents :
              Count(visited, e) = IF WalkRoot \in Ancestors(world, e) THEN 1 ELSE 0

\* A walk over a hierarchy with a grandchild of the root, a visited entity
\* without a Children component, one with an empty Children component, and
\* an entity outside the walked subtree.
C1_Witness ==
    /\ Walked
    /\ \E e \in Range(visited) : WalkRoot \notin ParentsOf(world, e)
    /\ \E e \in Range(visited) : e \notin DOMAIN world.children
    /\ \E e \in Range(visited) : e \in DOMAIN world.children /\ world.children[e] = <<>>
    /\ \E e \in DOMAIN world.ents \ {WalkRoot} : e \notin Range(visited)

\* C2: the walk is post-order: the action runs on every descendant of a
\* visited entity before it runs on that entity.
C2_PostOrder ==
    Walked =>
        \A p \in Range(visited) :
          \A d \in Descendants(world, p) :
              /\ d \in Range(visited)
              /\ Pos(visited, d) < Pos(visited, p)

\* A walk in which a visited entity has a child and a grandchild.
C2_Witness ==
    /\ Walked
    /\ \E p \in Range(visited) :
         \E c \in Descendants(world, p) : Descendants(world, c) # {}

Stable(w, r) == Alive(w, r) /\ ~w.ents[r].pps

\* C3: once the marker of a root is gone (the despawns queued in the same
\* frame are applied with its removal), no surviving descendant of the root
\* is a camera, and none is a light unless it carries GrifLight.
C3_DespawnComplete ==
    \A r \in Roots :
        Stable(world, r) =>
            \A d \in Descendants(world, r) :
                /\ ~world.ents[d].cam
                /\ world.ents[d].light => world.ents[d].grif

\* A stable root that lost an imported entity and kept another one.
C3_Witness ==
    \E r \in Roots :
        /\ Stable(world, r)
        /\ Descendants(world, r) # {}
        /\ \E e \in SceneEnts(r) : ~Alive(world, e)

\* What the world holds of the subtree of r.
SubtreeView(w, r) ==
    [e \in {r} \cup Descendants(w, r) |->
        [comp |-> w.ents[e],
         kids |-> IF e \in DOMAIN w.children THEN <<w.children[e]>> ELSE <<>>]]

\* C4: a root without the marker keeps being without it, its subtree is
\* never changed again, proc_scene neither visits nor queues a command for
\* any entity of it, and proc_scene flips no material when no root carries
\* the marker.
C4_StableStep ==
    \A r \in Roots :
        Stable(world, r) =>
            /\ Stable(world', r)
            /\ SubtreeView(world', r) = SubtreeView(world, r)
            /\ Range(visited') \cap ({r} \cup Descendants(world, r)) = {}
            /\ \A i \in DOMAIN procCmds' :
                  procCmds'[i][2] \notin {r} \cup Descendants(world, r)
            /\ Marked(world) = {} =>
                  \A m \in DOMAIN materials : materials'[m] = materials[m]

C4_OneWay == [][C4_StableStep]_vars

\* proc_scene has run in a frame that began with a stable root that still
\* has descendants, while the other root was walked.
C4_Witness ==
    /\ "proc_scene" \in ran
    /\ visited # <<>>
    /\ \E r \in Roots : Stable(world, r) /\ Descendants(world, r) # {}

(***************************************************************************)
(* The steps of the systems, as seen in the state.                         *)
(***************************************************************************)
StepOf(name) == name \notin ran /\ name \in ran'

\* C5: a save_scene step that finds K >= 1 signals in the save queue
\* dispatches exactly one write task with one snapshot and leaves the queue
\* empty; a save_scene step that finds the queue empty dispatches nothing.
C5_SaveStep ==
    StepOf("save_scene") =>
        IF SavePending >= 1
          THEN /\ Len(tasks') = Len(tasks) + 1
               /\ \A i \in DOMAIN tasks : tasks'[i] = tasks[i]
               /\ saveEvents'.a + saveEvents'.b = 0
               /\ drained'.save = SavePending
          ELSE /\ tasks' = tasks
               /\ drained'.save = 0

C5_SaveCoalescing == [][C5_SaveStep]_vars

\* save_scene has consumed two signals in one frame and dispatched one task.
C5_Witness ==
    /\ "save_scene" \in ran
    /\ drained.save = 2
    /\ Len(tasks) = 1
    /\ saveEvents.a = 0

\* C6: a load_scene step that finds K >= 1 unread signals makes one asset
\* request, queues the spawn of one holder and marks all K read; a step that
\* finds none unread spawns and requests nothing, although read signals may
\* still be in the queue; no unread signal is ever dropped from the queue,
\* and every unread signal is read by a later load_scene step.
C6_LoadStep ==
    /\ StepOf("load_scene") =>
          IF loadEvents.unread >= 1
            THEN /\ Len(loadCmds') = Len(loadCmds) + 1
                 /\ loadCmds'[Len(loadCmds')][1] = "spawn"
                 /\ loadCmds'[Len(loadCmds')][2] \notin DOMAIN world.ents
                 /\ asset' = RequestAsset(asset)
                 /\ loadEvents'.unread = 0
                 /\ drained'.load = loadEvents.unread
            ELSE /\ loadCmds' = loadCmds
                 /\ asset' = asset
                 /\ drained'.load = 0
    /\ loadEvents'.unread < loadEvents.unread => StepOf("load_scene")

C6_LoadCoalescing ==
    /\ [][C6_LoadStep]_vars
    /\ (loadEvents.unread > 0) ~> (drained.load > 0)

\* load_scene has consumed two signals in one frame and queued one spawn.
C6_Witness ==
    /\ "load_scene" \in ran
    /\ drained.load = 2
    /\ Len(loadCmds) = 1
    /\ asset = "loading"

\* C7: a write task is dispatched only by a save_scene step that finds a
\* SaveScene signal, a holder and an asset request only by a load_scene step
\* that finds an unread LoadScene signal; save_scene leaves the load path
\* alone and load_scene the save path; a signal enters a queue only in an
\* input_scene step that finds its key just pressed.
C7_Step ==
    /\ Len(tasks') > Len(tasks) => StepOf("save_scene") /\ SavePending >= 1
    /\ (Len(loadCmds') > Len(loadCmds) \/ (asset' = "loading" /\ asset # "loading"))
          => StepOf("load_scene") /\ loadEvents.unread >= 1
    /\ StepOf("save_scene") => UNCHANGED <<loadEvents, loadCmds, asset, world>>
    /\ StepOf("load_scene") => UNCHANGED <<saveEvents, tasks, file, world>>
    /\ saveEvents'.a + saveEvents'.b > SavePending
          => StepOf("input_scene") /\ "Y" \in keys'
    /\ (loadEvents'.a + loadEvents'.b > LoadBuffered
            \/ loadEvents'.unread > loadEvents.unread)
          => StepOf("input_scene") /\ "H" \in keys'
    /\ (StepOf("input_scene") /\ "Y" \notin keys') => saveEvents' = saveEvents
    /\ (StepOf("input_scene") /\ "H" \notin keys') => loadEvents' = loadEvents

C7_InputDriven == [][C7_Step]_vars

\* A save has been dispatched in a frame in which an unread load signal
\* waits, untouched, for load_scene.
C7_Witness ==
    /\ "save_scene" \in ran
    /\ "load_scene" \notin ran
    /\ drained.save >= 1
    /\ loadEvents.unread >= 1
    /\ loadCmds = <<>>
    /\ asset = "none"

\* The payload the claim describes: 26 point lights at (i,5,0), i = 0..25.
C8_Payload ==
    [k \in 1 .. 26 |->
        <<"entity", k - 1, "components",
          [kind |-> "PointLight", color |-> "YELLOW", pos |-> <<k - 1, 5, 0>>]>>]
      \o << <<")">> >>

\* C8: every payload handed to a write task is the same 26 yellow point
\* lights at (i,5,0), whatever the live world holds when the save is taken,
\* and what the file holds is that payload or the beginning of it.
C8_PayloadFixed ==
    /\ \A i \in DOMAIN tasks : tasks[i] = C8_Payload
    /\ \A i \in DOMAIN file : file[i] = SubSeq(C8_Payload, 1, Len(file[i]))

\* A save has just been taken from a live world with a sanitized scene and a
\* holder, while the payload of an earlier save is in the file.
C8_Witness ==
    /\ "save_scene" \in ran
    /\ drained.save >= 1
    /\ Len(tasks) = 1
    /\ file # <<>>
    /\ LiveHolders(world) # {}
    /\ \E r \in Roots : Stable(world, r) /\ Descendants(world, r) # {}

\* C9 as claimed: in every frame save_scene runs after proc_scene, and
\* load_scene after save_scene.
C9_StepInOrder ==
    /\ StepOf("save_scene") => "proc_scene" \in ran
    /\ StepOf("load_scene") => "save_scene" \in ran

C9_FixedOrder == [][C9_StepInOrder]_vars

\* C9 as amended: every frame runs each system once, one at a time and in no
\* fixed order; proc_scene does its whole walk in its own step; no system
\* changes the live world, and the queued commands are applied only when all
\* four systems have run.
C9_StepOnceEach ==
    /\ ran' # ran =>
          \/ \E name \in Systems \ ran : ran' = ran \cup {name}
          \/ ran = Systems /\ ran' = {}
    /\ StepOf("proc_scene") => procCmds = <<>> /\ visited = <<>>
    /\ (\E name \in Systems : StepOf(name)) => world' = world
    /\ ((procCmds # <<>> /\ procCmds' = <<>>) \/ (loadCmds # <<>> /\ loadCmds' = <<>>))
          => ran = Systems /\ ran' = {}
                /\ world' = ApplyCommands(ApplyCommands(world, procCmds), loadCmds)

C9_OnceEachUnordered == [][C9_StepOnceEach]_vars

\* save_scene has dispatched a save before proc_scene has run in a frame in
\* which a marked root with children is still to be walked.
C9_Witness ==
    /\ "save_scene" \in ran
    /\ "proc_scene" \notin ran
    /\ drained.save >= 1
    /\ \E r \in Marked(world) : r \in DOMAIN world.children

\* C10: the step in which save_scene dispatches a save ends with the write
\* task pending and the file untouched; the step in which load_scene acts
\* queues the spawn without the asset being read in it, and the holder is in
\* the world at the end of the frame whatever the asset's state; no system
\* step and no frame end completes a task; and every system that has not run
\* yet, and the end of the frame once all have, can take its step whatever
\* tasks are pending.
C10_Step ==
    /\ (StepOf("save_scene") /\ SavePending >= 1)
          => /\ Len(tasks') = Len(tasks) + 1
             /\ file' = file
    /\ (StepOf("load_scene") /\ loadEvents.unread >= 1)
          => /\ Len(loadCmds') = Len(loadCmds) + 1
             /\ asset' \in {"loading", asset}
    /\ (ran = Systems /\ ran' = {})
          => /\ \A i \in DOMAIN loadCmds : Alive(world', loadCmds[i][2])
             /\ UNCHANGED <<tasks, file, asset>>
    /\ (\E name \in Systems : StepOf(name)) =>
          /\ \A i \in DOMAIN tasks : tasks'[i] = tasks[i]
          /\ file' = file

C10_NoWait ==
    /\ "proc_scene" \notin ran  => ENABLED proc_scene
    /\ "save_scene" \notin ran  => ENABLED save_scene
    /\ "input_scene" \notin ran => ENABLED input_scene(KeySets(MaxTasks, MaxLoads))
    /\ "load_scene" \notin ran  => ENABLED load_scene
    /\ ran = Systems => ENABLED end_frame

C10_NeverBlocked == [][C10_Step]_vars /\ []C10_NoWait

\* A later frame runs save_scene (nothing to save) while the write task of
\* an earlier frame is pending, a holder is in the world and the asset it
\* refers to is still loading.
C10_Witness ==
    /\ "save_scene" \in ran
    /\ drained.save = 0
    /\ Len(tasks) >= 1
    /\ LiveHolders(world) # {}
    /\ asset = "loading"

\* The lights of scene_world (lines 170-181), in the order of their ids.
C11_Emitted == [k \in 1 .. NumLights |-> SceneWorld.ents[k - 1]]

\* What the live world holds under a holder: kind, color and position of
\* its children, in order.
C11_Under(w, h) ==
    [k \in DOMAIN w.children[h] |->
        [kind  |-> w.ents[w.children[h][k]].kind,
         color |-> w.ents[w.children[h][k]].color,
         pos   |-> w.ents[w.children[h][k]].pos]]

\* C11, for a file that holds the whole text of a save: the write task
\* writes and the asset server reads the same file; a read made while the
\* file holds the text a save emitted loads a scene,
\* and the entities the scene spawner then puts under a holder are new
\* entities, all of them lights, with the kinds, colors and positions of
\* the 26 lights the save built; every holder that has been given its
\* entities holds exactly these.
C11_Step ==
    /\ (asset = "loading" /\ asset' # asset /\ file = <<C8_Payload>>)
          => /\ asset' = "loaded"
             /\ Len(night'[1]) = NumLights
    /\ \A h \in LiveHolders(world) :
          (h \notin DOMAIN world.children /\ h \in DOMAIN world'.children)
            => /\ asset = "loaded"
               /\ Range(world'.children[h]) \cap DOMAIN world.ents = {}
               /\ \A e \in Range(world'.children[h]) : world'.ents[e].light
               /\ C11_Under(world', h) = C11_Emitted

C11_RoundTrip ==
    /\ [][C11_Step]_vars
    /\ [](\A h \in LiveHolders(world) :
            h \in DOMAIN world.children => C11_Under(world, h) = C11_Emitted)

\* A holder has been given the 26 lights of a save that was written while
\* an earlier holder was already in the world.
C11_Witness ==
    /\ Cardinality(LiveHolders(world)) = 2
    /\ \E h \in LiveHolders(world) :
          h \in DOMAIN world.children /\ Len(world.children[h]) = 26
    /\ file = <<C8_Payload>>
    /\ log = "done"

\* C12: no step turns the flag of a material from true to false, and a
\* proc_scene step leaves in the store the materials it found there, each
\* flipped exactly if it was flipped before or at least one walked entity
\* refers to it, however many do.
C12_Step ==
    /\ \A m \in DOMAIN materials : m \in DOMAIN materials' /\ (materials[m] => materials'[m])
    /\ StepOf("proc_scene") =>
          /\ DOMAIN materials' = DOMAIN materials
          /\ \A m \in DOMAIN materials :
                materials'[m] = (materials[m]
                                   \/ \E e \in Range(visited') : world.ents[e].mat = m)

C12_FlipMonotonic == [][C12_Step]_vars

\* proc_scene has walked two entities that refer to the same material, and
\* the material is flipped.
C12_Witness ==
    /\ "proc_scene" \in ran
    /\ \E e1, e2 \in Range(visited) :
          /\ e1 # e2
          /\ world.ents[e1].mat # 0
          /\ world.ents[e1].mat = world.ents[e2].mat
          /\ world.ents[e1].mat \in DOMAIN materials
          /\ materials[world.ents[e1].mat]

\* The roots proc_scene has walked in this frame.
WalkedRoots == { procCmds[i][2] : i \in { i \in DOMAIN procCmds : procCmds[i][1] = "remove_pps" } }

\* The frame ends: the queued commands are applied.
FrameEnds == ran = Systems /\ ran' = {}

\* A light without GrifLight, or a camera.
Unwanted(w, e) == (w.ents[e].light /\ ~w.ents[e].grif) \/ w.ents[e].cam

\* C13 as claimed: no light carrying GrifLight below a walked root is gone
\* when the commands of the walk have been applied.
C13_GrifNeverRemoved ==
    [][FrameEnds =>
         \A r \in WalkedRoots : \A d \in Descendants(world, r) :
            (world.ents[d].light /\ world.ents[d].grif) => Alive(world', d)]_vars

\* C13: proc_scene queues no despawn for a light carrying GrifLight unless
\* it is a camera; when the commands of the walk have been applied, every
\* descendant light without GrifLight is gone, and a descendant light
\* carrying GrifLight is gone exactly if it is a camera or lies below a
\* descendant that is a light without GrifLight or a camera.
C13_Step ==
    /\ \A i \in DOMAIN procCmds' :
          (procCmds'[i][1] = "despawn_recursive"
             /\ world.ents[procCmds'[i][2]].light /\ world.ents[procCmds'[i][2]].grif)
            => world.ents[procCmds'[i][2]].cam
    /\ FrameEnds =>
         \A r \in WalkedRoots : \A d \in Descendants(world, r) :
            /\ (world.ents[d].light /\ ~world.ents[d].grif) => ~Alive(world', d)
            /\ (world.ents[d].light /\ world.ents[d].grif) =>
                  (Alive(world', d) <=>
                     /\ ~world.ents[d].cam
                     /\ \A a \in Ancestors(world, d) \cap Descendants(world, r) :
                           ~Unwanted(world, a))

C13_GrifExempt == [][C13_Step]_vars

\* A root has become stable and still has a light carrying GrifLight below
\* it, while another entity of its scene is gone.
C13_Witness ==
    \E r \in Roots :
        /\ Stable(world, r)
        /\ \E d \in Descendants(world, r) : world.ents[d].light /\ world.ents[d].grif
        /\ \E e \in SceneEnts(r) : ~Alive(world, e)

\* C14 as claimed: a marked root below which proc_scene met an entity whose
\* material is not in the store keeps its marker when the frame ends, to be
\* walked again.
C14_RetryOnMissing ==
    [][FrameEnds =>
         \A r \in Marked(world) :
            (\E d \in Descendants(world, r) :
                world.ents[d].mat # 0 /\ world.ents[d].mat \notin DOMAIN materials)
              => (Alive(world', r) /\ world'.ents[r].pps)]_vars

\* A write task ends in this step.
TaskEnds == Len(tasks') < Len(tasks)

\* C11 as claimed: a read made after a write task has ended with its
\* completion log loads the 26 lights the save emitted.
C11_LoadAfterSave ==
    [][(asset = "loading" /\ asset' # asset /\ log = "done")
          => /\ asset' = "loaded"
             /\ [k \in DOMAIN night'[1] |-> night'[1][k].components] = C11_Emitted]_vars

\* C15 as claimed: a write task that ends without having written the whole
\* snapshot to the file ends as a failure, without the completion log, and
\* leaves the live world, both queues and the other tasks as they are.
C15_FailureSurfaced ==
    [][(TaskEnds /\ file' # <<Head(tasks)>>)
          => /\ log' = "panicked"
             /\ tasks' = Tail(tasks)
             /\ UNCHANGED <<world, materials, saveEvents, loadEvents, ran>>]_vars

\* C16: a save_scene step changes nothing but the save queue, the list of
\* pending write tasks and the record of the frame: the live world, the
\* material store, the load queue and the queued commands are as before,
\* so that none of the 26 lights is ever in the live world or on its way to
\* it; the end of a write task, however it ends, leaves them as they are
\* too.
C16_Step ==
    /\ StepOf("save_scene") =>
          /\ UNCHANGED <<world, materials, loadEvents, procCmds, loadCmds, asset, night>>
          /\ saveEvents' = IF SavePending >= 1 THEN [a |-> 0, b |-> 0] ELSE saveEvents
    /\ TaskEnds =>
          UNCHANGED <<world, materials, saveEvents, loadEvents, procCmds, loadCmds>>

C16_LiveUntouched == [][C16_Step]_vars

\* save_scene has taken a save in a frame in which a sanitized scene and a
\* scene not yet walked are in the world, a command of proc_scene is queued
\* and a load signal waits to be read.
C16_Witness ==
    /\ "save_scene" \in ran
    /\ drained.save >= 1
    /\ "load_scene" \notin ran
    /\ loadEvents.unread >= 1
    /\ procCmds # <<>>
    /\ \E r \in Roots : Stable(world, r) /\ Descendants(world, r) # {}

\* C17: no write task and no read is ever cancelled, and a trigger given
\* while one is pending is taken: the list of pending write tasks changes
\* only by a save_scene step that puts one more task behind the pending
\* ones, which stay as they are, and by the end of the task at its head; a
\* read that has started ends loaded or failed; input_scene queues the
\* signal of every key pressed whatever is pending; save_scene and
\* load_scene act on a waiting signal whatever is pending, and no holder
\* spawned by an earlier load leaves the world.
C17_Step ==
    /\ tasks' # tasks =>
          \/ /\ StepOf("save_scene")
             /\ SavePending > 0
             /\ Len(tasks') = Len(tasks) + 1
             /\ SubSeq(tasks', 1, Len(tasks)) = tasks
          \/ /\ TaskEnds
             /\ tasks' = Tail(tasks)
             /\ \E outcome \in WriteOutcomes :
                  /\ file' = FileAfter(outcome, Head(tasks), file)
                  /\ log'  = LogAfter(outcome)
    /\ asset = "loading" => asset' \in {"loading", "loaded", "failed"}
    /\ StepOf("input_scene") =>
          /\ saveEvents'.b = saveEvents.b + (IF "Y" \in keys' THEN 1 ELSE 0)
          /\ loadEvents'.unread = loadEvents.unread + (IF "H" \in keys' THEN 1 ELSE 0)
          /\ UNCHANGED <<tasks, asset, loadCmds>>
    /\ StepOf("save_scene") /\ SavePending > 0 =>
          tasks' = Append(tasks, C8_Payload)
    /\ StepOf("load_scene") /\ LoadPending > 0 =>
          /\ Len(loadCmds') = Len(loadCmds) + 1
          /\ asset' = RequestAsset(asset)
    /\ LiveHolders(world) \subseteq LiveHolders(world')

C17_NoCancellation == [][C17_Step]_vars

\* Two write tasks are pending at once and a second holder has been spawned
\* while the read started by the first load is still going on.
C17_Witness ==
    /\ Len(tasks) = 2
    /\ asset = "loading"
    /\ Cardinality(LiveHolders(world)) = 2

\* The commands of cmds without the redundant despawns: those whose target
\* is not alive in the world the commands before them have made of w.
RECURSIVE Effective(_, _)
Effective(w, cmds) ==
    IF cmds = <<>> THEN <<>>
    ELSE CHOOSE out \in
           { IF c[1] = "despawn_recursive" /\ ~Alive(w, c[2])
               THEN Effective(w, Tail(cmds))
               ELSE <<c>> \o Effective(ApplyCommand(w, c), Tail(cmds)) :
             c \in {Head(cmds)} } : TRUE

\* The targets of the despawns in cmds.
DespawnTargets(cmds) ==
    { cmds[i][2] : i \in { i \in DOMAIN cmds : cmds[i][1] = "despawn_recursive" } }

\* C18: at the end of a frame the world is the one that the commands of
\* proc_scene without the redundant despawns, followed by those of
\* load_scene, make of it; the entities of the frame that are gone are the
\* targets of the despawns and their descendants and no other, and every
\* entity that stays keeps its tags and its material.
C18_Step ==
    FrameEnds =>
       LET gone == UNION { {t} \cup Descendants(world, t) : t \in DespawnTargets(procCmds) }
       IN  /\ world' = ApplyCommands(ApplyCommands(world, Effective(world, procCmds)),
                                     loadCmds)
           /\ DOMAIN world.ents \ DOMAIN world'.ents = gone \cap DOMAIN world.ents
           /\ \A e \in DOMAIN world.ents \cap DOMAIN world'.ents :
                 world'.ents[e] = [world.ents[e] EXCEPT !.pps = @ /\ e \notin WalkedRoots]

NextAttach ==
    \/ proc_scene
    \/ save_scene
    \/ input_scene({{}})
    \/ load_scene
    \/ end_frame
    \/ scene_spawn([r \in Roots |-> ChainScenes])
    \/ material_loaded(ChainMaterials)

FairAttachSpec ==
    /\ Init
    /\ [][NextAttach]_vars
    /\ WF_vars(proc_scene)
    /\ WF_vars(save_scene)
    /\ WF_vars(input_scene({{}}))
    /\ WF_vars(load_scene)
    /\ WF_vars(end_frame)

\* The marked roots the scene spawner has given children.
Attached(w) == Marked(w) \cap DOMAIN w.children

C19_Step ==
    /\ StepOf("proc_scene") =>
          /\ WalkedRoots' = Attached(world)
          /\ Attached(world) = {} => procCmds' = <<>> /\ materials' = materials
    /\ \A r \in Marked(world) :
          r \notin DOMAIN world'.children =>
             /\ r \notin DOMAIN world.children
             /\ r \in Marked(world')
             /\ world'.ents[r] = world.ents[r]
    /\ FrameEnds =>
          \A r \in Marked(world) :
             IF r \in DOMAIN world.children
               THEN Stable(world', r)
               ELSE r \in Marked(world') /\ r \notin DOMAIN world'.children

\* C19: proc_scene leaves a marked root without a children list as it is
\* (it queues nothing for it, and when no marked root has children it
\* queues nothing at all and touches no material); a marked root stays
\* marked as long as it has no children; the frame in which a marked root
\* has children ends with the root unmarked; and a root that has got
\* children is unmarked in the end.
C19_PendingUntilAttached ==
    /\ [][C19_Step]_vars
    /\ \A r \in Roots : (r \in DOMAIN world.children) ~> Stable(world, r)

\* proc_scene has run in a frame in which one root, attached earlier, is
\* unmarked and has its children and another root still has no children:
\* that one is still marked and nothing is queued.
C19_Witness ==
    /\ "proc_scene" \in ran
    /\ procCmds = <<>>
    /\ \E r, s \in Roots :
          /\ Stable(world, r) /\ r \in DOMAIN world.children
          /\ s \in Marked(world) /\ s \notin DOMAIN world.children

(***************************************************************************)
(* The frames with the keyboard, the first of the two scenes attached at   *)
(* any time (the second one still loading), its material arriving at any   *)
(* time, and the lights of the file instantiated under a holder: a world   *)
(* with entities below a marked root and entities that are below none.     *)
(***************************************************************************)
NextLive ==
    \/ proc_scene
    \/ save_scene
    \/ input_scene(KeySets(MaxTasks, MaxLoads))
    \/ load_scene
    \/ end_frame
    \/ scene_spawn([r \in Roots |-> IF r = 1 THEN ChainScenes ELSE {}])
    \/ material_loaded(ChainMaterials)
    \/ write_task(WholeWrites)
    \/ read_task
    \/ scene_instantiate

SpecLive == Init /\ [][NextLive]_vars

\* The proper descendants of the marked roots of w.
BelowMarked(w) == UNION { Descendants(w, r) : r \in Marked(w) }

\* C20: proc_scene changes nothing in the world on the spot; every despawn
\* it queues is for a proper descendant of a marked root, the only other
\* command it queues is the removal of the marker of a marked root, and a
\* material it flips is one that a proper descendant of a marked root
\* refers to.  At the end of the frame every entity that is not below a
\* marked root (the camera of setup, a holder, the lights instantiated
\* under a holder, the roots themselves) is still alive with its tags and
\* its material, a walked root having lost its marker and nothing else,
\* and, unless it is a marked root, with the children it had.
C20_Step ==
    /\ StepOf("proc_scene") =>
          /\ world' = world
          /\ DespawnTargets(procCmds') \subseteq BelowMarked(world)
          /\ \A i \in DOMAIN procCmds' :
                \/ procCmds'[i][1] = "despawn_recursive"
                \/ procCmds'[i][1] = "remove_pps" /\ procCmds'[i][2] \in Marked(world)
          /\ \A m \in DOMAIN materials :
                materials'[m] # materials[m] =>
                   \E e \in BelowMarked(world) : world.ents[e].mat = m
    /\ FrameEnds =>
          \A e \in DOMAIN world.ents \ BelowMarked(world) :
             /\ e \in DOMAIN world'.ents
             /\ world'.ents[e] = [world.ents[e] EXCEPT !.pps = @ /\ e \notin WalkedRoots]
             /\ e \in DOMAIN world.children \ Marked(world) =>
                   /\ e \in DOMAIN world'.children
                   /\ world'.children[e] = world.children[e]

C20_OnlyBelowMarked == [][C20_Step]_vars

\* proc_scene has queued the despawn of a light below the first root and
\* flipped the material of the mesh there, in a frame in which the lights
\* of the file stand under a holder and the camera of setup is alive.
C20_Witness ==
    /\ "proc_scene" \in ran
    /\ DespawnTargets(procCmds) # {}
    /\ \E m \in DOMAIN materials : materials[m]
    /\ IsCamera(world, AppCamera)
    /\ \E h \in LiveHolders(world) :
          /\ h \in DOMAIN world.children
          /\ \A k \in 1 .. Len(world.children[h]) :
                IsRemovableLight(world, world.children[h][k])
          /\ Len(world.children[h]) = NumLights

====
